---- MODULE Spec2Model ----
(***************************************************************************)
(* Maze generator (randomized depth-first carving), the three graph-search *)
(* solvers (DFS, BFS, A* ) and the two MDP solvers (policy iteration,      *)
(* value iteration) of src/src, driven by the loop of main.py.             *)
(*                                                                         *)
(* Cells are pairs <<row, col>>, 0-based as in the source.  walls[c] is    *)
(* the list [top, right, bottom, left] of Cell.walls, indexed 0..3.        *)
(* Python's None is the empty tuple for cell-valued slots and the string   *)
(* "None" for action-valued slots.                                         *)
(*                                                                         *)
(* Real numbers: every value function entry is stored as an integer        *)
(* multiple of 1/Scale.  gamma is a dyadic fraction, so -1 + gamma * V is  *)
(* computed without rounding (IEEE doubles are exact on the same inputs);  *)
(* ExactArithmetic states the condition under which that holds.            *)
(***************************************************************************)
EXTENDS Integers, Sequences, FiniteSets, TLC

\* Largest grid explored: rows in 0..MaxRows, cols in 0..MaxCols.
MaxRows == 3
MaxCols == 3

\* Sweeps followed in one solver call: a call that has run MaxSweeps sweeps
\* and is still inside `while True` is not followed further.
MaxSweeps == 24

\* Fixed-point unit of the value function: V = n / Scale.
Scale == 2^29

\* (gamma numerator, gamma denominator, theta * Scale) triples handed to the
\* MDP solvers.  main.py passes gamma = 0.9 and leaves theta = 1e-4; the
\* functions accept any gamma, theta.
Params == { <<1, 2, Scale \div 16>>, <<1, 2, Scale>> }

None == <<>>

VARIABLES
  rows, cols,      \* Maze.rows, Maze.cols
  walls,           \* Cell.walls of every cell of Maze.grid
  visited,         \* Cell.visited of every cell of Maze.grid
  stack,           \* Maze.stack
  pc,              \* position of main(): constructed, generating, choose, run, wait, crashed
  todo,            \* algorithms main() still has to run for the chosen mode
  maze_copy,       \* the deep copy run_algorithm / run_mdp_algorithm hands to the solver
  loc,             \* local variables of the solver call in progress (or last returned);
                   \* sweeps and improvements of the MDP solvers are history
                   \* counters: the source keeps no such variables
  results,         \* row log_result wrote for each algorithm on this maze, with the
                   \* path the solver drew before it returned
  gamma, theta,    \* arguments of the MDP solvers
  choices,         \* what random.choice returned so far in this generate_maze call
  prev             \* the random choices and walls of an earlier generate_maze call

vars == <<rows, cols, walls, visited, stack, pc, todo, maze_copy, loc, results,
          gamma, theta, choices, prev>>

\* What the generator leaves alone, and what a solver's loop leaves alone.
generatorFrame == <<rows, cols, todo, maze_copy, loc, results, gamma, theta, prev>>
solverFrame == <<rows, cols, walls, visited, stack, pc, todo, maze_copy, results,
                 gamma, theta, choices, prev>>

Algs == {"DFS", "BFS", "ASTAR", "POLICY", "VALUE"}

Max(a, b) == IF a >= b THEN a ELSE b
Abs(a) == IF a >= 0 THEN a ELSE -a

Cells == (0 .. (rows - 1)) \X (0 .. (cols - 1))

Start == <<0, 0>>
End == <<rows - 1, cols - 1>>

Contains(seq, x) == \E i \in 1 .. Len(seq) : seq[i] = x

\* ----------------------------------------------------------------------
\* maze_generator.py

\* Maze.__init__: every cell with four walls, unvisited; empty stack.
NewWalls == [c \in Cells |-> [i \in 0 .. 3 |-> TRUE]]
NewVisited == [c \in Cells |-> FALSE]

\* Maze.index
index(row, col) ==
  IF row < 0 \/ col < 0 \/ row >= rows \/ col >= cols THEN None ELSE <<row, col>>

\* get_unvisited_neighbors without its `not neighbor.visited` tests.
get_unvisited_neighbors_any(cell) ==
  LET row == cell[1]
      col == cell[2]
      cand == << index(row - 1, col), index(row, col + 1),
                 index(row + 1, col), index(row, col - 1) >>
  IN SelectSeq(cand, LAMBDA n : n # None)

\* Maze.get_unvisited_neighbors: top, right, bottom, left, in that order.
get_unvisited_neighbors(cell) ==
  LET row == cell[1]
      col == cell[2]
      cand == << index(row - 1, col), index(row, col + 1),
                 index(row + 1, col), index(row, col - 1) >>
  IN SelectSeq(cand, LAMBDA n : n # None /\ ~visited[n])

\* remove_walls clearing only the current cell's side of the boundary.
remove_walls_one_side(w, current, next_cell) ==
  LET dx == current[2] - next_cell[2]
      dy == current[1] - next_cell[1]
      w1 == IF dx = 1 THEN [w EXCEPT ![current][3] = FALSE]
            ELSE IF dx = -1 THEN [w EXCEPT ![current][1] = FALSE]
            ELSE w
  IN IF dy = 1 THEN [w1 EXCEPT ![current][0] = FALSE]
     ELSE IF dy = -1 THEN [w1 EXCEPT ![current][2] = FALSE]
     ELSE w1

\* remove_walls clearing the same wall index in both cells instead of the
\* facing one in the neighbour.
remove_walls_same_index(w, current, next_cell) ==
  LET dx == current[2] - next_cell[2]
      dy == current[1] - next_cell[1]
      w1 == IF dx = 1
              THEN [w EXCEPT ![current][3] = FALSE, ![next_cell][3] = FALSE]
            ELSE IF dx = -1
              THEN [w EXCEPT ![current][1] = FALSE, ![next_cell][1] = FALSE]
            ELSE w
  IN IF dy = 1
       THEN [w1 EXCEPT ![current][0] = FALSE, ![next_cell][0] = FALSE]
     ELSE IF dy = -1
       THEN [w1 EXCEPT ![current][2] = FALSE, ![next_cell][2] = FALSE]
     ELSE w1

\* Maze.remove_walls
remove_walls(w, current, next_cell) ==
  LET dx == current[2] - next_cell[2]
      dy == current[1] - next_cell[1]
      w1 == IF dx = 1
              THEN [w EXCEPT ![current][3] = FALSE, ![next_cell][1] = FALSE]
            ELSE IF dx = -1
              THEN [w EXCEPT ![current][1] = FALSE, ![next_cell][3] = FALSE]
            ELSE w
  IN IF dy = 1
       THEN [w1 EXCEPT ![current][0] = FALSE, ![next_cell][2] = FALSE]
     ELSE IF dy = -1
       THEN [w1 EXCEPT ![current][2] = FALSE, ![next_cell][0] = FALSE]
     ELSE w1

\* get_neighbors_coord: accessible neighbours, top, right, bottom, left.
get_neighbors_coord(cell_coord, maze) ==
  LET row == cell_coord[1]
      col == cell_coord[2]
      w == maze.walls[cell_coord]
  IN (IF ~w[0] /\ row > 0 THEN << <<row - 1, col>> >> ELSE <<>>)
     \o (IF ~w[1] /\ col < cols - 1 THEN << <<row, col + 1>> >> ELSE <<>>)
     \o (IF ~w[2] /\ row < rows - 1 THEN << <<row + 1, col>> >> ELSE <<>>)
     \o (IF ~w[3] /\ col > 0 THEN << <<row, col - 1>> >> ELSE <<>>)

\* dict.get on a predecessor map
Get(came_from, k) == IF k \in DOMAIN came_from THEN came_from[k] ELSE None

Reverse(seq) == [i \in 1 .. Len(seq) |-> seq[Len(seq) + 1 - i]]

RECURSIVE WalkBack(_, _, _)
WalkBack(came_from, current, path) ==
  IF current = None THEN path
  ELSE WalkBack(came_from, Get(came_from, current), Append(path, current))

\* reconstruct_path without its path.reverse().
reconstruct_path_unreversed(came_from, start, end) == WalkBack(came_from, end, <<>>)

\* reconstruct_path
reconstruct_path(came_from, start, end) == Reverse(WalkBack(came_from, end, <<>>))

\* ----------------------------------------------------------------------
\* State after get_maze_dimensions() and the first Maze(rows, cols, cell_size).

Idle == [alg |-> "none", phase |-> "idle"]
NoResults == [a \in Algs |-> None]

Init ==
  /\ rows \in 0 .. MaxRows
  /\ cols \in 0 .. MaxCols
  /\ walls = NewWalls
  /\ visited = NewVisited
  /\ stack = <<>>
  /\ pc = "constructed"
  /\ todo = <<>>
  /\ maze_copy = None
  /\ loc = Idle
  /\ results = NoResults
  /\ \E p \in Params : gamma = <<p[1], p[2]>> /\ theta = p[3]
  /\ choices = <<>>
  /\ prev = None

\* ----------------------------------------------------------------------
\* Maze.generate_maze

\* Lines 105-107: grid[0][0] marked visited and pushed.
generate_maze_begin ==
  /\ pc = "constructed"
  /\ Start \in Cells
  /\ visited' = [visited EXCEPT ![Start] = TRUE]
  /\ stack' = << Start >>
  /\ pc' = "generating"
  /\ UNCHANGED <<generatorFrame, walls, choices>>

\* Line 105 on an empty grid: self.grid[0][0] raises IndexError.
generate_maze_index_error ==
  /\ pc = "constructed"
  /\ Start \notin Cells
  /\ pc' = "crashed"
  /\ UNCHANGED <<generatorFrame, walls, visited, stack, choices>>

\* Lines 109-119: the top of the stack has unvisited neighbours; random.choice
\* picks one.
generate_maze_carve ==
  /\ pc = "generating"
  /\ stack # <<>>
  /\ LET current == stack[Len(stack)]
         neighbors == get_unvisited_neighbors(current)
     IN /\ neighbors # <<>>
        /\ \E i \in 1 .. Len(neighbors) :
             LET next_cell == neighbors[i]
             IN /\ visited' = [visited EXCEPT ![next_cell] = TRUE]
                /\ walls' = remove_walls(walls, current, next_cell)
                /\ stack' = Append(stack, next_cell)
                /\ choices' = Append(choices, next_cell)
  /\ UNCHANGED <<generatorFrame, pc>>

\* Lines 109-112, 120-121: no unvisited neighbour, pop.
generate_maze_pop ==
  /\ pc = "generating"
  /\ stack # <<>>
  /\ get_unvisited_neighbors(stack[Len(stack)]) = <<>>
  /\ stack' = SubSeq(stack, 1, Len(stack) - 1)
  /\ UNCHANGED <<generatorFrame, walls, visited, pc, choices>>

\* generate_maze returning without its reset loop.
reset_visited_skipped == visited

\* Lines 129-132: the stack is empty; every visited flag is reset.
reset_visited == [c \in Cells |-> FALSE]

generate_maze_reset ==
  /\ pc = "generating"
  /\ stack = <<>>
  /\ visited' = reset_visited
  /\ pc' = "choose"
  /\ UNCHANGED <<generatorFrame, walls, stack, choices>>

\* ----------------------------------------------------------------------
\* main.py

\* choose_run_mode and the lists main() runs for each mode.
Modes ==
  { <<"DFS">>, <<"BFS">>, <<"ASTAR">>, <<"DFS", "BFS", "ASTAR">>,
    <<"POLICY">>, <<"VALUE">>, <<"POLICY", "VALUE">>,
    <<"DFS", "BFS", "ASTAR", "POLICY", "VALUE">> }

choose_run_mode ==
  /\ pc = "choose"
  /\ \E m \in Modes : todo' = m
  /\ pc' = "run"
  /\ UNCHANGED <<rows, cols, walls, visited, stack, maze_copy, loc, results, gamma, theta,
                 choices, prev>>

\* run_algorithm / run_mdp_algorithm, up to the first loop test of the solver:
\* the deep copy, and the solver's local variables as it initialises them.
\* heuristic with its sign flipped: cells far from the goal look best.
heuristic_negated(a, b) == 0 - (Abs(a[1] - b[1]) + Abs(a[2] - b[2]))

\* astar.py heuristic: Manhattan distance.
heuristic(a, b) == Abs(a[1] - b[1]) + Abs(a[2] - b[2])

\* float('inf') of g_score / f_score: larger than any path cost.
Inf == 1000000

\* The list `states` walked from its last entry to its first.
StateAt_reversed(i) == <<(rows * cols - i) \div cols, (rows * cols - i) % cols>>

\* The list `states` the MDP solvers build: row-major order.
StateAt(i) == <<(i - 1) \div cols, (i - 1) % cols>>
NumStates == rows * cols

\* get_possible_actions: (action, next_state) pairs in the order U, R, D, L.
get_possible_actions(maze, state) ==
  LET r == state[1]
      c == state[2]
      w == maze.walls[state]
  IN (IF ~w[0] /\ r > 0 THEN << <<"U", <<r - 1, c>> >> >> ELSE <<>>)
     \o (IF ~w[1] /\ c < cols - 1 THEN << <<"R", <<r, c + 1>> >> >> ELSE <<>>)
     \o (IF ~w[2] /\ r < rows - 1 THEN << <<"D", <<r + 1, c>> >> >> ELSE <<>>)
     \o (IF ~w[3] /\ c > 0 THEN << <<"L", <<r, c - 1>> >> >> ELSE <<>>)

\* The sweeps' test `if state == terminal: continue`, never taken.
is_terminal_never(state) == FALSE

\* `if state == terminal: continue` of the sweeps.
is_terminal(state) == state = End

\* Q(s, a) with the reward's sign flipped: +1 + gamma * V[next_state].
QValue_reward_positive(V, next_state) == (gamma[1] * V[next_state]) \div gamma[2] + Scale

\* Q(s, a) = -1 + gamma * V[next_state]
QValue(V, next_state) == (gamma[1] * V[next_state]) \div gamma[2] - Scale

\* policy_iteration lines 79-90: the first legal action of every state.
initial_policy(maze) ==
  [s \in Cells |->
     IF s = End THEN "None"
     ELSE LET actions == get_possible_actions(maze, s)
          IN IF actions # <<>> THEN actions[1][1] ELSE "None"]

dfs_locals ==
  [alg |-> "DFS", phase |-> "loop", broke |-> FALSE,
   stack |-> << Start >>, came_from |-> (Start :> None), visited |-> {},
   nodes_expanded |-> 0, max_frontier_size |-> 1, path |-> <<>>]

\* solve_bfs starting from an empty queue (the start cell never enqueued).
bfs_locals_empty_queue ==
  [alg |-> "BFS", phase |-> "loop", broke |-> FALSE,
   queue |-> <<>>, came_from |-> (Start :> None), visited |-> {Start},
   nodes_expanded |-> 0, max_frontier_size |-> 1, path |-> <<>>]

\* solve_bfs with a visited set that outlives the call: it still holds what the
\* solver that ran just before left in its own.
bfs_locals_shared_visited ==
  [alg |-> "BFS", phase |-> "loop", broke |-> FALSE,
   queue |-> << Start >>, came_from |-> (Start :> None),
   visited |-> {Start} \cup (IF loc.alg = "DFS" THEN loc.visited ELSE {}),
   nodes_expanded |-> 0, max_frontier_size |-> 1, path |-> <<>>]

bfs_locals ==
  [alg |-> "BFS", phase |-> "loop", broke |-> FALSE,
   queue |-> << Start >>, came_from |-> (Start :> None), visited |-> {Start},
   nodes_expanded |-> 0, max_frontier_size |-> 1, path |-> <<>>]

astar_locals ==
  [alg |-> "ASTAR", phase |-> "loop", broke |-> FALSE,
   open_set |-> << <<0, Start>> >>, came_from |-> <<>>,
   g_score |-> [c \in Cells |-> IF c = Start THEN 0 ELSE Inf],
   f_score |-> [c \in Cells |-> IF c = Start THEN heuristic(Start, End) ELSE Inf],
   open_set_hash |-> {Start}, visited |-> {},
   nodes_expanded |-> 0, max_frontier_size |-> 1, path |-> <<>>]

value_locals ==
  [alg |-> "VALUE", phase |-> "sweep", V |-> [c \in Cells |-> 0],
   policy |-> <<>>, sweeps |-> 0, delta |-> 0,
   path |-> <<>>, state |-> Start, broke |-> FALSE]

policy_locals(maze) ==
  [alg |-> "POLICY", phase |-> "eval", V |-> [c \in Cells |-> 0],
   policy |-> initial_policy(maze), sweeps |-> 0, delta |-> 0,
   improvements |-> 0, stable |-> FALSE,
   path |-> <<>>, state |-> Start, broke |-> FALSE]

run_begin ==
  /\ pc = "run"
  /\ todo # <<>>
  /\ loc.phase \in {"idle", "returned"}
  /\ LET maze == [walls |-> walls, visited |-> visited]
     IN /\ maze_copy' = maze
        /\ loc' = CASE Head(todo) = "DFS" -> dfs_locals
                    [] Head(todo) = "BFS" -> bfs_locals
                    [] Head(todo) = "ASTAR" -> astar_locals
                    [] Head(todo) = "VALUE" -> value_locals
                    [] Head(todo) = "POLICY" -> policy_locals(maze)
  /\ UNCHANGED <<rows, cols, walls, visited, stack, pc, todo, results, gamma, theta,
                 choices, prev>>

\* ----------------------------------------------------------------------
\* search_algorithms/dfs.py

\* Lines 46-50: push every neighbour that is neither visited nor on the stack.
RECURSIVE dfs_push(_, _, _, _)
dfs_push(l, current, neighbors, i) ==
  IF i > Len(neighbors) THEN l
  ELSE LET neighbor == neighbors[i]
       IN IF neighbor \notin l.visited /\ ~Contains(l.stack, neighbor)
            THEN dfs_push([l EXCEPT !.came_from = (neighbor :> current) @@ @,
                                    !.stack = Append(@, neighbor),
                                    !.max_frontier_size = Max(@, Len(l.stack) + 1)],
                          current, neighbors, i + 1)
            ELSE dfs_push(l, current, neighbors, i + 1)

\* Lines 27-50: one iteration of `while stack`.
solve_dfs_loop ==
  /\ pc = "run" /\ loc.alg = "DFS" /\ loc.phase = "loop"
  /\ ~loc.broke /\ loc.stack # <<>>
  /\ LET current == loc.stack[Len(loc.stack)]
         popped == [loc EXCEPT !.stack = SubSeq(@, 1, Len(@) - 1),
                               !.nodes_expanded = @ + 1,
                               !.max_frontier_size = Max(@, Len(loc.stack) - 1),
                               !.visited = @ \cup {current}]
     IN loc' = IF current = End THEN [popped EXCEPT !.broke = TRUE]
               ELSE dfs_push(popped, current, get_neighbors_coord(current, maze_copy), 1)
  /\ UNCHANGED solverFrame

\* ----------------------------------------------------------------------
\* search_algorithms/bfs.py

\* The enqueue loop with the predecessor stored the wrong way round
\* (came_from[current] = neighbor).
RECURSIVE bfs_push_swapped(_, _, _, _)
bfs_push_swapped(l, current, neighbors, i) ==
  IF i > Len(neighbors) THEN l
  ELSE LET neighbor == neighbors[i]
       IN IF neighbor \notin l.visited
            THEN bfs_push_swapped([l EXCEPT !.visited = @ \cup {neighbor},
                                            !.came_from = (current :> neighbor) @@ @,
                                            !.queue = Append(@, neighbor),
                                            !.max_frontier_size = Max(@, Len(l.queue) + 1)],
                                  current, neighbors, i + 1)
            ELSE bfs_push_swapped(l, current, neighbors, i + 1)

\* Lines 44-49: enqueue every neighbour not yet visited.
RECURSIVE bfs_push(_, _, _, _)
bfs_push(l, current, neighbors, i) ==
  IF i > Len(neighbors) THEN l
  ELSE LET neighbor == neighbors[i]
       IN IF neighbor \notin l.visited
            THEN bfs_push([l EXCEPT !.visited = @ \cup {neighbor},
                                    !.came_from = (neighbor :> current) @@ @,
                                    !.queue = Append(@, neighbor),
                                    !.max_frontier_size = Max(@, Len(l.queue) + 1)],
                          current, neighbors, i + 1)
            ELSE bfs_push(l, current, neighbors, i + 1)

\* Lines 26-49: one iteration of `while queue`.
solve_bfs_loop ==
  /\ pc = "run" /\ loc.alg = "BFS" /\ loc.phase = "loop"
  /\ ~loc.broke /\ loc.queue # <<>>
  /\ LET current == Head(loc.queue)
         popped == [loc EXCEPT !.queue = Tail(@),
                               !.nodes_expanded = @ + 1,
                               !.max_frontier_size = Max(@, Len(loc.queue) - 1)]
     IN loc' = IF current = End THEN [popped EXCEPT !.broke = TRUE]
               ELSE bfs_push(popped, current, get_neighbors_coord(current, maze_copy), 1)
  /\ UNCHANGED solverFrame

\* ----------------------------------------------------------------------
\* search_algorithms/astar.py

\* Order of the (f, (row, col)) tuples in the PriorityQueue.
TupleLess(a, b) ==
  \/ a[1] < b[1]
  \/ a[1] = b[1] /\ a[2][1] < b[2][1]
  \/ a[1] = b[1] /\ a[2][1] = b[2][1] /\ a[2][2] < b[2][2]

\* Index of the entry PriorityQueue.get() returns; open_set is kept in insertion order.
PopIndex(open_set) ==
  CHOOSE i \in 1 .. Len(open_set) :
    \A j \in 1 .. Len(open_set) : j = i \/ TupleLess(open_set[i], open_set[j])

RemoveAt(seq, i) == SubSeq(seq, 1, i - 1) \o SubSeq(seq, i + 1, Len(seq))

\* Lines 63-72: relax every neighbour.
RECURSIVE astar_relax(_, _, _, _)
astar_relax(l, current, neighbors, i) ==
  IF i > Len(neighbors) THEN l
  ELSE LET neighbor == neighbors[i]
           tentative_g == l.g_score[current] + 1
           f == tentative_g + heuristic(neighbor, End)
           relaxed == [l EXCEPT !.came_from = (neighbor :> current) @@ @,
                                !.g_score[neighbor] = tentative_g,
                                !.f_score[neighbor] = f]
       IN IF tentative_g < l.g_score[neighbor]
            THEN IF neighbor \notin l.open_set_hash
                   THEN astar_relax(
                          [relaxed EXCEPT !.open_set = Append(@, <<f, neighbor>>),
                                          !.open_set_hash = @ \cup {neighbor},
                                          !.max_frontier_size =
                                             Max(@, Cardinality(l.open_set_hash) + 1)],
                          current, neighbors, i + 1)
                   ELSE astar_relax(relaxed, current, neighbors, i + 1)
            ELSE astar_relax(l, current, neighbors, i + 1)

\* Lines 43-72: one iteration of `while not open_set.empty()`.
solve_astar_loop ==
  /\ pc = "run" /\ loc.alg = "ASTAR" /\ loc.phase = "loop"
  /\ ~loc.broke /\ loc.open_set # <<>>
  /\ LET i == PopIndex(loc.open_set)
         current == loc.open_set[i][2]
         popped == [loc EXCEPT !.open_set = RemoveAt(@, i),
                               !.open_set_hash = @ \ {current},
                               !.nodes_expanded = @ + 1,
                               !.max_frontier_size =
                                  Max(@, Cardinality(loc.open_set_hash \ {current})),
                               !.visited = @ \cup {current}]
     IN loc' = IF current = End THEN [popped EXCEPT !.broke = TRUE]
               ELSE astar_relax(popped, current, get_neighbors_coord(current, maze_copy), 1)
  /\ UNCHANGED solverFrame

\* ----------------------------------------------------------------------
\* The tail the three search solvers share (dfs.py 52-61, bfs.py 51-60,
\* astar.py 74-83) and run_algorithm's log_result.

Frontier(l) ==
  CASE l.alg = "DFS" -> l.stack
    [] l.alg = "BFS" -> l.queue
    [] l.alg = "ASTAR" -> l.open_set

search_return ==
  /\ pc = "run" /\ loc.alg \in {"DFS", "BFS", "ASTAR"} /\ loc.phase = "loop"
  /\ (loc.broke \/ Frontier(loc) = <<>>)
  /\ LET path == reconstruct_path(loc.came_from, Start, End)
     IN /\ loc' = [loc EXCEPT !.phase = "returned", !.path = path]
        /\ results' = [results EXCEPT ![loc.alg] =
                         [steps_taken |-> Len(path),
                          nodes_expanded |-> loc.nodes_expanded,
                          max_frontier_size |-> loc.max_frontier_size,
                          path |-> path]]
  /\ todo' = Tail(todo)
  /\ pc' = IF Tail(todo) = <<>> THEN "wait" ELSE "run"
  /\ UNCHANGED <<rows, cols, walls, visited, stack, maze_copy, gamma, theta, choices, prev>>

\* ----------------------------------------------------------------------
\* mdp_algorithms/value_iteration.py

\* max(Q_values) over the legal actions
RECURSIVE MaxQ(_, _, _, _)
MaxQ(V, actions, i, best) ==
  IF i > Len(actions) THEN best
  ELSE MaxQ(V, actions, i + 1, Max(best, QValue(V, actions[i][2])))

\* Lines 86-100: the `for state in states` body of one sweep; V is updated in
\* place, so a later state reads the values written earlier in the same sweep.
RECURSIVE vi_sweep(_, _, _, _)
vi_sweep(maze, V, delta, i) ==
  IF i > NumStates THEN [V |-> V, delta |-> delta]
  ELSE LET state == StateAt(i)
           actions == get_possible_actions(maze, state)
       IN IF is_terminal(state) \/ actions = <<>>
            THEN vi_sweep(maze, V, delta, i + 1)
            ELSE LET v == V[state]
                     new == MaxQ(V, actions, 2, QValue(V, actions[1][2]))
                 IN vi_sweep(maze, [V EXCEPT ![state] = new],
                             Max(delta, Abs(v - new)), i + 1)

\* Lines 84-102: one iteration of `while True`.
value_iteration_sweep ==
  /\ pc = "run" /\ loc.alg = "VALUE" /\ loc.phase = "sweep"
  /\ loc.sweeps < MaxSweeps
  /\ LET r == vi_sweep(maze_copy, loc.V, 0, 1)
     IN loc' = [loc EXCEPT !.V = r.V, !.delta = r.delta, !.sweeps = @ + 1,
                           !.phase = IF r.delta < theta THEN "derive" ELSE "sweep"]
  /\ UNCHANGED solverFrame

\* The first action with the largest Q-value (strict `q > best_value`).
RECURSIVE BestAction(_, _, _, _, _)
BestAction(V, actions, i, best_action, best_value) ==
  IF i > Len(actions) THEN best_action
  ELSE LET q == QValue(V, actions[i][2])
       IN IF best_action = "None" \/ q > best_value
            THEN BestAction(V, actions, i + 1, actions[i][1], q)
            ELSE BestAction(V, actions, i + 1, best_action, best_value)

\* Lines 105-121: the greedy policy.
greedy_policy(maze, V) ==
  [s \in Cells |->
     IF s = End THEN "None"
     ELSE BestAction(V, get_possible_actions(maze, s), 1, "None", 0)]

\* Lines 104-123 up to the first test of extract_policy_path's loop.
value_iteration_policy ==
  /\ pc = "run" /\ loc.alg = "VALUE" /\ loc.phase = "derive"
  /\ loc' = [loc EXCEPT !.policy = greedy_policy(maze_copy, loc.V),
                        !.phase = "extract", !.path = <<>>, !.state = Start,
                        !.broke = FALSE]
  /\ UNCHANGED solverFrame

\* ----------------------------------------------------------------------
\* mdp_algorithms/policy_iteration.py

\* Lines 99-105: the successor policy[state] names, None when it names none.
RECURSIVE PolicySuccessor(_, _, _)
PolicySuccessor(actions, a, i) ==
  IF i > Len(actions) THEN None
  ELSE IF actions[i][1] = a THEN actions[i][2]
  ELSE PolicySuccessor(actions, a, i + 1)

\* Lines 96-110: the `for state in states` body of one evaluation sweep, in place.
RECURSIVE pe_sweep(_, _, _, _, _)
pe_sweep(maze, policy, V, delta, i) ==
  IF i > NumStates THEN [V |-> V, delta |-> delta]
  ELSE LET state == StateAt(i)
           next_state == PolicySuccessor(get_possible_actions(maze, state), policy[state], 1)
       IN IF is_terminal(state) \/ next_state = None
            THEN pe_sweep(maze, policy, V, delta, i + 1)
            ELSE LET v == V[state]
                     new == QValue(V, next_state)
                 IN pe_sweep(maze, policy, [V EXCEPT ![state] = new],
                             Max(delta, Abs(v - new)), i + 1)

\* Lines 94-112: one iteration of policy_evaluation's `while True`.
policy_evaluation_sweep ==
  /\ pc = "run" /\ loc.alg = "POLICY" /\ loc.phase = "eval"
  /\ loc.sweeps < MaxSweeps
  /\ LET r == pe_sweep(maze_copy, loc.policy, loc.V, 0, 1)
     IN loc' = [loc EXCEPT !.V = r.V, !.delta = r.delta, !.sweeps = @ + 1,
                           !.phase = IF r.delta < theta THEN "improve" ELSE "eval"]
  /\ UNCHANGED solverFrame

\* Lines 119-135: one improvement pass over the states, policy updated in place
\* (V is not written, so the order of the states does not matter).
improved_policy(maze, policy, V) ==
  [s \in Cells |->
     IF s = End \/ get_possible_actions(maze, s) = <<>> THEN policy[s]
     ELSE BestAction(V, get_possible_actions(maze, s), 1, "None", 0)]

\* Lines 116-137: the pass after an evaluation; `while not stable` is left when
\* no action changed.
policy_improvement ==
  /\ pc = "run" /\ loc.alg = "POLICY" /\ loc.phase = "improve"
  /\ LET new == improved_policy(maze_copy, loc.policy, loc.V)
         stable == (new = loc.policy)
     IN loc' = [loc EXCEPT !.policy = new, !.stable = stable,
                           !.improvements = @ + 1,
                           !.phase = IF stable THEN "extract" ELSE "eval",
                           !.path = <<>>, !.state = Start, !.broke = FALSE]
  /\ UNCHANGED solverFrame

\* ----------------------------------------------------------------------
\* extract_policy_path (the same text in value_iteration.py, policy_iteration.py
\* and utils.py)

Move(state, action) ==
  CASE action = "U" -> <<state[1] - 1, state[2]>>
    [] action = "R" -> <<state[1], state[2] + 1>>
    [] action = "D" -> <<state[1] + 1, state[2]>>
    [] action = "L" -> <<state[1], state[2] - 1>>

\* The path is recorded up to NumStates + 1 entries: by then a state has
\* repeated and the walk, which depends on the state alone, never ends.
Record(path, state) == IF Len(path) <= NumStates THEN Append(path, state) ELSE path

\* Lines 39-54: one iteration of `while state != terminal`.
extract_policy_path_loop ==
  /\ pc = "run" /\ loc.alg \in {"VALUE", "POLICY"} /\ loc.phase = "extract"
  /\ ~loc.broke /\ loc.state # End
  /\ LET action == loc.policy[loc.state]
     IN loc' = IF action = "None"
                 THEN [loc EXCEPT !.path = Record(@, loc.state), !.broke = TRUE]
                 ELSE [loc EXCEPT !.path = Record(@, loc.state),
                                  !.state = Move(loc.state, action)]
  /\ UNCHANGED solverFrame

\* Lines 55-56, the solver's `return len(path)` and run_mdp_algorithm's
\* log_result(..., steps_taken, memory_usage, 0, 0).
mdp_return ==
  /\ pc = "run" /\ loc.alg \in {"VALUE", "POLICY"} /\ loc.phase = "extract"
  /\ (loc.broke \/ loc.state = End)
  /\ LET path == Append(loc.path, End)
     IN /\ loc' = [loc EXCEPT !.phase = "returned", !.path = path]
        /\ results' = [results EXCEPT ![loc.alg] =
                         [steps_taken |-> Len(path),
                          nodes_expanded |-> 0,
                          max_frontier_size |-> 0,
                          path |-> path]]
  /\ todo' = Tail(todo)
  /\ pc' = IF Tail(todo) = <<>> THEN "wait" ELSE "run"
  /\ UNCHANGED <<rows, cols, walls, visited, stack, maze_copy, gamma, theta, choices, prev>>

\* ----------------------------------------------------------------------
\* main.py: wait_for_restart, then the next round of `while True` builds a new
\* Maze of the same dimensions.
wait_for_restart ==
  /\ pc = "wait"
  /\ walls' = NewWalls
  /\ visited' = NewVisited
  /\ stack' = <<>>
  /\ pc' = "constructed"
  /\ todo' = <<>>
  /\ maze_copy' = None
  /\ loc' = Idle
  /\ results' = NoResults
  /\ choices' = <<>>
  /\ UNCHANGED <<rows, cols, gamma, theta, prev>>

Next ==
  \/ generate_maze_begin
  \/ generate_maze_index_error
  \/ generate_maze_carve
  \/ generate_maze_pop
  \/ generate_maze_reset
  \/ choose_run_mode
  \/ run_begin
  \/ solve_dfs_loop
  \/ solve_bfs_loop
  \/ solve_astar_loop
  \/ search_return
  \/ value_iteration_sweep
  \/ value_iteration_policy
  \/ policy_evaluation_sweep
  \/ policy_improvement
  \/ extract_policy_path_loop
  \/ mdp_return
  \/ wait_for_restart

Spec == Init /\ [][Next]_vars

\* The same wait_for_restart after a round in which all five solvers ran,
\* remembering that round: the random choices of its generate_maze call, the
\* walls it produced and the rows logged for its solvers.  One round is
\* remembered; later rounds are compared with it.
wait_for_restart_remember ==
  /\ pc = "wait"
  /\ prev = None
  /\ \A a \in Algs : results[a] # None
  /\ prev' = [choices |-> choices, walls |-> walls, visited |-> visited,
              results |-> results]
  /\ walls' = NewWalls
  /\ visited' = NewVisited
  /\ stack' = <<>>
  /\ pc' = "constructed"
  /\ todo' = <<>>
  /\ maze_copy' = None
  /\ loc' = Idle
  /\ results' = NoResults
  /\ choices' = <<>>
  /\ UNCHANGED <<rows, cols, gamma, theta>>

NextRepeat == Next \/ wait_for_restart_remember

\* Runs in which main()'s loop comes back to a maze it has built before.
SpecRepeat == Init /\ [][NextRepeat]_vars

\* The value function stays on the fixed-point grid: every stored value is a
\* multiple of 4/Scale, so no product gamma * V is rounded.
ExactArithmetic ==
  (loc.alg \in {"VALUE", "POLICY"}) =>
     \A s \in Cells : loc.V[s] % 4 = 0

\* ----------------------------------------------------------------------
\* The generated maze as a graph

Generated == pc \in {"choose", "run", "wait"}

\* Boundary pairs open from both sides: a cell with its right or bottom neighbour.
OpenPairs ==
  { e \in Cells \X Cells :
      \/ /\ e[2] = <<e[1][1], e[1][2] + 1>>
         /\ ~walls[e[1]][1] /\ ~walls[e[2]][3]
      \/ /\ e[2] = <<e[1][1] + 1, e[1][2]>>
         /\ ~walls[e[1]][2] /\ ~walls[e[2]][0] }

Joined(a, b) == <<a, b>> \in OpenPairs \/ <<b, a>> \in OpenPairs

RECURSIVE ReachFrom(_)
ReachFrom(S) ==
  LET T == S \cup { c \in Cells : \E d \in S : Joined(c, d) }
  IN IF T = S THEN S ELSE ReachFrom(T)

Connected == ReachFrom({Start}) = Cells

\* A graph is a forest iff stripping cells of degree <= 1 again and again
\* leaves nothing.
RECURSIVE Prune(_)
Prune(S) ==
  LET keep == { c \in S : Cardinality({ d \in S : Joined(c, d) }) >= 2 }
  IN IF keep = S THEN S ELSE Prune(keep)

Acyclic == Prune(Cells) = {}

Degree(c) == Cardinality({ d \in Cells : Joined(c, d) })

\* C1: when generate_maze has returned on a grid with rows >= 1 and cols >= 1,
\* exactly rows*cols - 1 boundary pairs are open and the graph of the open
\* boundaries is connected and acyclic: a spanning tree over all cells.
C1_SpanningTree ==
  (Generated /\ rows >= 1 /\ cols >= 1) =>
     /\ Cardinality(OpenPairs) = rows * cols - 1
     /\ Connected
     /\ Acyclic

\* A generated 3x3 maze with a junction (a cell with three open boundaries).
C1_Witness ==
  /\ pc = "choose" /\ rows = 3 /\ cols = 3
  /\ \E c \in Cells : Degree(c) = 3

\* ----------------------------------------------------------------------
\* The search solvers on a generated maze

Search == {"DFS", "BFS", "ASTAR"}

\* A path of the maze from Start to End: non-empty, and consecutive cells are
\* joined by an open boundary.
IsMazePath(path) ==
  /\ Len(path) >= 1
  /\ path[1] = Start
  /\ path[Len(path)] = End
  /\ \A i \in 1 .. Len(path) - 1 : Joined(path[i], path[i + 1])

SearchIteration == solve_dfs_loop \/ solve_bfs_loop \/ solve_astar_loop

\* C2: on every generated maze each of solve_dfs, solve_bfs and solve_astar
\* terminates, and the path it reconstructs is non-empty, starts at (0,0), ends
\* at (rows-1, cols-1) and moves only across open boundaries.  Termination is
\* stated by a variant: inside the loop nodes_expanded never exceeds rows*cols,
\* every iteration adds one to it, and the call is never stuck (an iteration or
\* the return is enabled); so after at most rows*cols iterations the call returns.
C2_SearchTerminatesWithPath ==
  /\ [] ((loc.alg \in Search /\ loc.phase = "loop") =>
           /\ loc.nodes_expanded <= rows * cols
           /\ ENABLED (SearchIteration \/ search_return))
  /\ [] [ SearchIteration => loc'.nodes_expanded = loc.nodes_expanded + 1 ]_vars
  /\ [] ((loc.alg \in Search /\ loc.phase = "returned") => IsMazePath(loc.path))

\* Each of the three solvers has returned a path through a 3x3 maze with a
\* junction; the DFS one is witnessed after a detour into a dead end.
C2_Witness ==
  /\ rows = 3 /\ cols = 3 /\ pc = "wait"
  /\ \A a \in Search : results[a] # None /\ results[a].steps_taken >= 5
  /\ results["DFS"].nodes_expanded > results["DFS"].steps_taken

\* C3: on the same generated maze solve_bfs and solve_astar return the same
\* path length, and solve_dfs returns a path length >= that of solve_bfs.
C3_PathLengths ==
  /\ (results["BFS"] # None /\ results["ASTAR"] # None) =>
        results["BFS"].steps_taken = results["ASTAR"].steps_taken
  /\ (results["DFS"] # None /\ results["BFS"] # None) =>
        results["DFS"].steps_taken >= results["BFS"].steps_taken

\* All three have run on one 3x3 maze whose solution is neither the shortest
\* (5 cells) nor the longest (9 cells) possible.
C3_Witness ==
  /\ rows = 3 /\ cols = 3
  /\ \A a \in Search : results[a] # None
  /\ results["BFS"].steps_taken = 7

\* C5: nodes_expanded of solve_bfs and of solve_astar is at most rows*cols, and
\* solve_astar expands at most as many nodes as solve_bfs on the same maze.
C5_NodesExpanded ==
  /\ \A a \in {"BFS", "ASTAR"} :
        results[a] # None => results[a].nodes_expanded <= rows * cols
  /\ (results["BFS"] # None /\ results["ASTAR"] # None) =>
        results["ASTAR"].nodes_expanded <= results["BFS"].nodes_expanded

\* A maze on which the heuristic prunes: A* expands strictly fewer nodes.
C5_Witness ==
  /\ results["BFS"] # None /\ results["ASTAR"] # None
  /\ results["ASTAR"].nodes_expanded < results["BFS"].nodes_expanded

\* ----------------------------------------------------------------------
\* The MDP solvers on a generated maze

MDP == {"VALUE", "POLICY"}

\* C4: for every generated maze, gamma in (0,1) and theta > 0, value_iteration
\* and policy_iteration terminate and the path extracted from the final policy
\* is as long as the one solve_bfs returns.  A walk of extract_policy_path that
\* has recorded more than rows*cols states has repeated a state and never ends.
C4_MdpPathMatchesBfs ==
  /\ (loc.alg \in MDP /\ loc.phase = "extract") => Len(loc.path) <= NumStates
  /\ \A a \in MDP :
       (results[a] # None /\ results["BFS"] # None) =>
          results[a].steps_taken = results["BFS"].steps_taken

ValueSweep == value_iteration_sweep \/ policy_evaluation_sweep

\* C6 as stated: in value_iteration and in every policy_evaluation phase, V(s)
\* after a sweep is greater than or equal to V(s) before it, for every state s.
C6_NonDecreasingPerSweep ==
  [] [ ValueSweep => \A s \in Cells : loc'.V[s] >= loc.V[s] ]_vars

\* C6 amended: the sweeps of value_iteration, and those of the first
\* policy_evaluation phase of policy_iteration, never raise a value: V(s) after
\* the sweep is less than or equal to V(s) before it, for every state s.
C6_NonIncreasingPerSweep ==
  [] [ (value_iteration_sweep \/ (policy_evaluation_sweep /\ loc.improvements = 0))
         => \A s \in Cells : loc'.V[s] <= loc.V[s] ]_vars

\* value_iteration on a 3x3 maze after a second sweep that lowered V(start)
\* below the -1 the first sweep gave it.
C6_Witness ==
  /\ rows = 3 /\ cols = 3
  /\ loc.alg = "VALUE" /\ loc.sweeps >= 2
  /\ loc.V[Start] < 0 - Scale

\* C7: at every point of value_iteration and policy_iteration V(s) <= 0 for
\* every state s, and V of the terminal state (rows-1, cols-1) is exactly 0.
\* (Inside a sweep every entry is the value it had before the sweep or the one
\* it has after it, so the sweep boundaries cover the points in between.)
C7_ValueBounds ==
  (loc.alg \in MDP) =>
     /\ \A s \in Cells : loc.V[s] <= 0
     /\ loc.V[End] = 0

\* policy_iteration past its first improvement pass on a 3x3 maze, every
\* non-terminal value negative.
C7_Witness ==
  /\ rows = 3 /\ cols = 3
  /\ loc.alg = "POLICY" /\ loc.improvements >= 1 /\ loc.sweeps >= 3
  /\ \A s \in Cells \ {End} : loc.V[s] < 0

\* ----------------------------------------------------------------------
\* Rounds of main()'s loop compared with the remembered one

SameChoices == prev # None /\ Generated /\ choices = prev.choices
SameMaze == prev # None /\ Generated /\ walls = prev.walls

\* C8: two generate_maze calls that receive the same sequence of random
\* neighbour choices produce identical wall flags for every cell, and every
\* solver run again on the same maze logs the same path and the same metrics.
C8_Determinism ==
  SameChoices =>
     /\ walls = prev.walls
     /\ \A a \in Algs : results[a] # None => results[a] = prev.results[a]

\* A second round on a 3x3 grid that drew the choices of the remembered round
\* and ran all five solvers again.
C8_Witness ==
  /\ rows = 3 /\ cols = 3 /\ SameChoices /\ Len(choices) = 8
  /\ \A a \in Algs : results[a] # None

\* C9: after generate_maze returns every visited flag is false; no solver run
\* changes a wall flag or a visited flag, and the copy a solver works on is the
\* generated maze; the row a solver logs is the same whichever solvers ran
\* before it on that maze.
C9_SolversLeaveMaze ==
  /\ [] (Generated => \A c \in Cells : ~visited[c])
  /\ [] [ pc = "run" => (walls' = walls /\ visited' = visited) ]_vars
  /\ [] ((pc = "run" /\ loc.alg \in Algs) =>
            maze_copy = [walls |-> walls, visited |-> visited])
  /\ [] (SameMaze => \A a \in Algs : results[a] # None => results[a] = prev.results[a])

\* The remembered round ran value_iteration last, after four other solvers; in
\* this round, on the same 3x3 maze, it ran alone.
C9_Witness ==
  /\ rows = 3 /\ cols = 3 /\ SameMaze /\ pc = "wait"
  /\ results["VALUE"] # None
  /\ \A a \in Algs \ {"VALUE"} : results[a] = None

\* ----------------------------------------------------------------------
\* The 1x1 maze

SingleCell == rows = 1 /\ cols = 1

\* C10 as stated: on a 1x1 maze every solver returns a path of length 1, the
\* search solvers report zero nodes expanded and the MDP solvers perform zero
\* sweeps.
C10_ZeroExpansionsAndSweeps ==
  SingleCell =>
     /\ \A a \in Algs : results[a] # None => results[a].steps_taken = 1
     /\ \A a \in Search : results[a] # None => results[a].nodes_expanded = 0
     /\ (loc.alg \in MDP /\ loc.phase = "returned") => loc.sweeps = 0

\* C10 amended: on a 1x1 maze every solver returns a path of length 1; each
\* search solver reports one node expanded (the start cell is popped before it
\* is compared with the goal) and each MDP solver performs exactly one sweep
\* (the sweep loop tests delta < theta after its body).
C10_SingleCell ==
  SingleCell =>
     /\ \A a \in Algs : results[a] # None => results[a].steps_taken = 1
     /\ \A a \in Search : results[a] # None => results[a].nodes_expanded = 1
     /\ (loc.alg \in MDP /\ loc.phase = "returned") => loc.sweeps = 1

\* All five solvers have run on the 1x1 maze.
C10_Witness ==
  /\ SingleCell /\ pc = "wait"
  /\ \A a \in Algs : results[a] # None

\* ----------------------------------------------------------------------
\* The straight 1x5 corridor

\* get_maze_dimensions() has returned (1, 5): the only maze generate_maze can
\* carve is the corridor (0,0)..(0,4) with every interior boundary open.
InitCorridor ==
  /\ rows = 1
  /\ cols = 5
  /\ walls = NewWalls
  /\ visited = NewVisited
  /\ stack = <<>>
  /\ pc = "constructed"
  /\ todo = <<>>
  /\ maze_copy = None
  /\ loc = Idle
  /\ results = NoResults
  /\ \E p \in Params : gamma = <<p[1], p[2]>> /\ theta = p[3]
  /\ choices = <<>>
  /\ prev = None

\* main() on a grid with cells: generate_maze never raises.
NextNonEmpty ==
  \/ generate_maze_begin
  \/ generate_maze_carve
  \/ generate_maze_pop
  \/ generate_maze_reset
  \/ choose_run_mode
  \/ run_begin
  \/ solve_dfs_loop
  \/ solve_bfs_loop
  \/ solve_astar_loop
  \/ search_return
  \/ value_iteration_sweep
  \/ value_iteration_policy
  \/ policy_evaluation_sweep
  \/ policy_improvement
  \/ extract_policy_path_loop
  \/ mdp_return
  \/ wait_for_restart

SpecCorridor == InitCorridor /\ [][NextNonEmpty]_vars

\* value_iteration has left its sweep loop on the 1x5 corridor.
CorridorSwept ==
  /\ rows = 1 /\ cols = 5
  /\ loc.alg = "VALUE" /\ loc.phase \in {"derive", "extract", "returned"}

\* -(1 + gamma + ... + gamma^(k-1)): the discounted cost of k moves.
RECURSIVE DiscountedCost(_)
DiscountedCost(k) ==
  IF k = 0 THEN 0 ELSE (gamma[1] * DiscountedCost(k - 1)) \div gamma[2] - Scale

\* C11 as stated: value_iteration on the 1x5 corridor stops after exactly 4
\* sweeps with V((0,4)) = 0, V((0,3)) = -1, V((0,2)) = -2, V((0,1)) = -3,
\* V((0,0)) = -4.
C11_FourSweepsWholeValues ==
  CorridorSwept =>
     /\ loc.sweeps = 4
     /\ \A c \in 0 .. 4 : loc.V[<<0, c>>] = 0 - (4 - c) * Scale

\* C11 amended: with theta <= gamma^3 value_iteration on the 1x5 corridor stops
\* after exactly 5 sweeps (four that change a value, one that finds delta = 0)
\* with V((0,c)) = -(1 + gamma + ... + gamma^(3-c)) for c = 0..3 and
\* V((0,4)) = 0 (for gamma = 1/2: -1.875, -1.75, -1.5, -1, 0).
C11_FiveSweepsDiscountedValues ==
  (CorridorSwept /\ theta <= (gamma[1] ^ 3 * Scale) \div gamma[2] ^ 3) =>
     /\ loc.sweeps = 5
     /\ \A c \in 0 .. 4 : loc.V[<<0, c>>] = DiscountedCost(4 - c)

\* value_iteration has returned on the corridor with gamma = 1/2, theta = 1/16:
\* V((0,0)) = -1.875.
C11_Witness ==
  /\ CorridorSwept /\ loc.phase = "returned"
  /\ gamma = <<1, 2>> /\ theta = Scale \div 16
  /\ loc.V[Start] = 0 - 15 * (Scale \div 8)

\* ----------------------------------------------------------------------
\* Inputs outside what main() produces with a generated maze

\* C12: a maze with rows <= 0 or cols <= 0 is rejected at construction: no Maze
\* object with a non-positive dimension exists (pc = "constructed" is the state
\* in which Maze(rows, cols, cell_size) has returned) and generate_maze is never
\* started on one (pc = "crashed" is its IndexError on such a grid).
C12_DimensionsRejected ==
  (pc = "constructed" \/ pc = "crashed") => (rows >= 1 /\ cols >= 1)

\* A caller that hands the solvers the Maze as its constructor built it, every
\* wall present, without calling generate_maze.
skip_generate_maze ==
  /\ pc = "constructed"
  /\ Start \in Cells
  /\ pc' = "choose"
  /\ UNCHANGED <<generatorFrame, walls, visited, stack, choices>>

NextUngenerated == Next \/ skip_generate_maze

\* Runs in which the solvers also receive mazes whose end cell is walled off.
SpecUngenerated == Init /\ [][NextUngenerated]_vars

\* C13: a search solver whose frontier becomes empty without the goal having
\* been popped reports "no path found": what it returns is not a path ending
\* at the goal, as a successful call's is.
C13_NoPathReported ==
  (loc.alg \in Search /\ loc.phase = "returned" /\ ~loc.broke) =>
     ~(loc.path # <<>> /\ loc.path[Len(loc.path)] = End)

\* The arguments of the MDP solvers with theta = 0 added: delta < theta is
\* then never true.
InitAnyTheta ==
  /\ rows \in 0 .. MaxRows
  /\ cols \in 0 .. MaxCols
  /\ walls = NewWalls
  /\ visited = NewVisited
  /\ stack = <<>>
  /\ pc = "constructed"
  /\ todo = <<>>
  /\ maze_copy = None
  /\ loc = Idle
  /\ results = NoResults
  /\ \E p \in Params \cup { <<1, 2, 0>> } : gamma = <<p[1], p[2]>> /\ theta = p[3]
  /\ choices = <<>>
  /\ prev = None

SpecNoConvergence == InitAnyTheta /\ [][Next]_vars

\* C14: both MDP solvers bound their sweeps by a ceiling, for every gamma and
\* theta: no call is still inside its sweep loop after the ceiling number of
\* sweeps, and a sweep that changed no value is the last of its loop (the loop
\* body is deterministic, so otherwise it repeats for ever).
C14_SweepCeiling ==
  /\ [] ((loc.alg \in MDP /\ loc.phase \in {"sweep", "eval"}) => loc.sweeps < MaxSweeps)
  /\ [] [ (ValueSweep /\ loc'.V = loc.V) => loc'.phase \notin {"sweep", "eval"} ]_vars

\* C15: a completed policy_iteration run reports its total number of
\* evaluation sweeps and its number of improvement passes, and a completed
\* value_iteration run its sweep count, as the two counters of the row logged
\* for the run.
C15_CountersReported ==
  \A a \in MDP :
     (loc.alg = a /\ loc.phase = "returned") =>
        /\ results[a].nodes_expanded = loc.sweeps
        /\ (a = "POLICY" => results[a].max_frontier_size = loc.improvements)

\* C16: extract_policy_path stops a walk that comes back to a state it has
\* visited: the path it builds never contains the same state twice.
C16_NoStateTwice ==
  (loc.alg \in MDP /\ loc.phase \in {"extract", "returned"}) =>
     \A i, j \in 1 .. Len(loc.path) : i # j => loc.path[i] # loc.path[j]

\* A synchronous sweep: every new value is computed from the values at the
\* start of the sweep.
SynchronousSweep(maze, V) ==
  [s \in Cells |->
     LET actions == get_possible_actions(maze, s)
     IN IF s = End \/ actions = <<>> THEN V[s]
        ELSE MaxQ(V, actions, 2, QValue(V, actions[1][2]))]

MaxChange(V, W) ==
  LET changes == { Abs(V[s] - W[s]) : s \in Cells } \cup {0}
  IN CHOOSE d \in changes : \A e \in changes : d >= e

\* C17: each value_iteration sweep is synchronous: the new V(s) is the maximum
\* over the legal actions of -1 + gamma * V_old(successor), V_old being the
\* value function at the start of the sweep, and delta is the largest absolute
\* change of the sweep.
C17_SynchronousSweeps ==
  [] [ value_iteration_sweep =>
         /\ loc'.V = SynchronousSweep(maze_copy, loc.V)
         /\ loc'.delta = MaxChange(loc.V, SynchronousSweep(maze_copy, loc.V)) ]_vars

\* get_maze_dimensions() has returned (2, 4), the smallest grid on which
\* generate_maze carves a maze where solve_astar meets two frontier entries of
\* equal f whose insertion order differs from their coordinate order.
InitWide ==
  /\ rows = 2
  /\ cols = 4
  /\ walls = NewWalls
  /\ visited = NewVisited
  /\ stack = <<>>
  /\ pc = "constructed"
  /\ todo = <<>>
  /\ maze_copy = None
  /\ loc = Idle
  /\ results = NoResults
  /\ \E p \in Params : gamma = <<p[1], p[2]>> /\ theta = p[3]
  /\ choices = <<>>
  /\ prev = None

SpecWide == InitWide /\ [][NextNonEmpty]_vars

\* The entry inserted first among those with the smallest f.
FirstInsertedMinimum(open_set) ==
  CHOOSE i \in 1 .. Len(open_set) :
    /\ \A j \in 1 .. Len(open_set) : open_set[i][1] <= open_set[j][1]
    /\ \A j \in 1 .. (i - 1) : open_set[j][1] > open_set[i][1]

\* C18: when several frontier entries of solve_astar have the same minimal f,
\* the one inserted first is popped first.
C18_TiesByInsertionOrder ==
  [] [ solve_astar_loop =>
         loc'.visited =
            loc.visited \cup { loc.open_set[FirstInsertedMinimum(loc.open_set)][2] } ]_vars

\* ----------------------------------------------------------------------
\* The generator's loop and the walls it leaves

NoRepeat(seq) == \A i, j \in 1 .. Len(seq) : i # j => seq[i] # seq[j]

\* Every cell generate_maze has pushed so far, in order: the start cell, then
\* each random choice.
Pushed == << Start >> \o choices

Elements(seq) == { seq[i] : i \in 1 .. Len(seq) }

\* The loop's variant: two for every cell still unvisited, one for every cell
\* on the stack.
GenerationMeasure == 2 * Cardinality({ c \in Cells : ~visited[c] }) + Len(stack)

GenerationStep == generate_maze_carve \/ generate_maze_pop

\* C19: generate_maze terminates for every rows >= 1, cols >= 1 and every
\* sequence of random choices.  While it runs, the cells marked visited are
\* exactly the cells pushed, no cell is pushed twice, the stack never holds a
\* cell twice, the loop is never stuck, and every iteration lowers the variant
\* (which is never negative); the stack is empty only once every cell has been
\* visited, and when the call has returned all rows*cols cells have been pushed
\* exactly once.
C19_GenerationTerminates ==
  /\ [] (pc = "generating" =>
           /\ NoRepeat(stack)
           /\ NoRepeat(Pushed)
           /\ \A c \in Cells : visited[c] <=> c \in Elements(Pushed)
           /\ Elements(stack) \subseteq Elements(Pushed)
           /\ (stack = <<>> => \A c \in Cells : visited[c])
           /\ ENABLED (GenerationStep \/ generate_maze_reset))
  /\ [] [ GenerationStep => GenerationMeasure' < GenerationMeasure ]_vars
  /\ [] ((Generated /\ rows >= 1 /\ cols >= 1) =>
           /\ NoRepeat(Pushed)
           /\ Elements(Pushed) = Cells
           /\ stack = <<>>)

\* The loop of generate_maze has just ended on a 3x3 grid, after a run that
\* backtracked to a junction and carved again from it.
C19_Witness ==
  /\ pc = "generating" /\ stack = <<>>
  /\ rows = 3 /\ cols = 3
  /\ \E c \in Cells : Degree(c) = 3

\* The cell across wall i of cell c (0 top, 1 right, 2 bottom, 3 left).
Across(c, i) ==
  CASE i = 0 -> <<c[1] - 1, c[2]>>
    [] i = 1 -> <<c[1], c[2] + 1>>
    [] i = 2 -> <<c[1] + 1, c[2]>>
    [] i = 3 -> <<c[1], c[2] - 1>>

\* C20: in every state during and after generate_maze the two wall flags of a
\* shared boundary agree and every wall on the outer border is present; the
\* neighbour relation of get_neighbors_coord is symmetric and stays inside the
\* grid, and get_possible_actions lists the same successors.
C20_WallsAgree ==
  LET maze == [walls |-> walls, visited |-> visited]
  IN /\ \A c \in Cells : \A i \in 0 .. 3 :
          IF Across(c, i) \in Cells
            THEN walls[c][i] = walls[Across(c, i)][(i + 2) % 4]
            ELSE walls[c][i]
     /\ \A c \in Cells :
          LET neighbors == get_neighbors_coord(c, maze)
              actions == get_possible_actions(maze, c)
          IN /\ \A n \in Elements(neighbors) :
                  n \in Cells /\ c \in Elements(get_neighbors_coord(n, maze))
             /\ neighbors = [k \in 1 .. Len(actions) |-> actions[k][2]]

\* generate_maze half-way through a 3x3 grid: four boundaries open, four cells
\* still untouched.
C20_Witness ==
  /\ pc = "generating"
  /\ rows = 3 /\ cols = 3
  /\ Cardinality(OpenPairs) = 4
  /\ Cardinality({ c \in Cells : ~visited[c] }) = 4

====
